---- MODULE Spec2Model ----
(***************************************************************************)
(* State-management layer of the materials discovery agent backend:       *)
(*   - utils/cache.py      CacheManager (permanent LRU tier, 24h TTL tier, *)
(*                         dynamically created ttl_<n> tiers)              *)
(*   - tools/*.py          the caching tool wrappers built on it           *)
(*   - agents/graph.py     the registry of active sessions and its sweep   *)
(*   - main.py             the chat endpoint that drives run_agent         *)
(*   - tools/surechembl.py the submit / poll / fetch protocol of a job     *)
(* `now` is the monotonic clock of the TTL tiers, in seconds; `wall` is    *)
(* datetime.now(), in minutes.                                             *)
(***************************************************************************)
EXTENDS Integers, Sequences, FiniteSets, TLC

(* ------------------------------ bounds -------------------------------- *)
\* capacity given to CacheManager(max_size=...); 1000 in production
MaxSize == 2
\* tool invocations that may wait for their remote call at the same time
MaxInflight == 2
\* number of clock advances explored
MaxTicks == 2
\* a caller-chosen duration other than the 24h default
OtherTtl == 43200
\* conversation turns counted per session in the short-term store
MaxTurns == 2
\* largest max_retries a direct call of the poller is given
MaxRetries == 3
\* the inactivity threshold the sweep is expected to apply, in minutes
InactiveMinutes == 60
\* turns of one session that may wait in agent.ainvoke at the same time
MaxOverlap == 2

(* ------------------------- program constants -------------------------- *)
\* TTLCache(maxsize=max_size, ttl=86400) and the test `ttl != 86400`
DEFAULT_TTL == 86400
\* TTLCache(maxsize=1000, ttl=ttl) of a dynamically created tier
DYN_MAXSIZE == 1000
CACHE_TTL_SEARCH_SHORT == 86400
CACHE_TTL_SEARCH_LONG == 604800
CACHE_TTL_MP_DATA == 604800
CACHE_TTL_MP_STATS == 2592000
CACHE_TTL_PATENTS == 86400
CACHE_TTL_STRUCTURES == 604800
\* timedelta(minutes=5) of the orphan branch of cleanup_old_sessions
ORPHAN_MINUTES == 5
\* max_retries: int = 10 of _poll_search_results
DEFAULT_MAX_RETRIES == 10

\* Python's None as a ttl argument (durations are non-negative integers)
NoTtl == 0 - 1
\* Python's None as a returned value
NoneValue == "None"

\* granularity of the clock: two thirds of the default duration, so that an
\* entry of the 24h tier is seen after time has passed and before it expires
TickUnit == (2 * DEFAULT_TTL) \div 3
MaxTime == MaxTicks * TickUnit

VARIABLES
    permanent,   \* LRUCache: entries [k, v], least recently used first
    temporary,   \* TTLCache(ttl=86400): entries [k, v, exp, d, at], LRU first
    dyn,         \* attribute name -> [ttl, items]: the ttl_<n> TTLCaches
    now,         \* the timer of the TTL caches
    ret,         \* what the last get returned
    last,        \* the last operation performed
    lastSet,     \* key -> the most recent set on it
    sinceClear,  \* TRUE from a clear() until the next set()
    touchSeq,    \* keys of the permanent tier by time of last touch
    inflight,    \* tool invocations waiting for their remote call
    active_sessions, \* _active_sessions: session id -> last access (wall)
    checkpointer,    \* _checkpointer: None or the InMemorySaver
    storage,         \* InMemorySaver.storage: thread id -> turns stored
    wall,            \* position of datetime.now() in Instants
    turns,           \* session id -> its run_agent calls in agent.ainvoke
    slast,           \* the last operation on the session registry
    due,             \* sessions a sweep was to remove, until their next turn
    poll,            \* the running call of _poll_search_results
    errorLog         \* the errors the poller has raised, with their cause

sessionVars ==
    <<active_sessions, checkpointer, storage, wall, turns, slast, due>>

pollVars == <<poll, errorLog>>

vars == <<permanent, temporary, dyn, now, ret, last, lastSet, sinceClear,
          touchSeq, inflight, sessionVars, pollVars>>

cacheVars == <<permanent, temporary, dyn>>

(* --------------------------- sequence helpers ------------------------- *)
Has(t, k) == \E i \in DOMAIN t : t[i].k = k

Entry(t, k) == t[CHOOSE i \in DOMAIN t : t[i].k = k]

Without(t, k) == SelectSeq(t, LAMBDA e : e.k # k)

KeySet(t) == {t[i].k : i \in DOMAIN t}

Range(s) == {s[i] : i \in DOMAIN s}

(* ----------------------- input ranges of the model -------------------- *)
KeyPool == <<"A", "B", "C", "D", "E">>

Keys == Range(KeyPool)

Values == {"v1", "v2"}

\* ttl arguments of CacheManager.set: None, the default, another duration
TtlArgs == {NoTtl, DEFAULT_TTL, OtherTtl}

(* ------------------ cachetools.LRUCache, as cache.py uses it ---------- *)
\* Cache.__setitem__: while currsize + size > maxsize: popitem(); popitem
\* removes the least recently used entry, the head of the order
RECURSIVE PopUntilFits(_, _)
PopUntilFits(t, maxsize) ==
    IF Len(t) + 1 > maxsize /\ Len(t) > 0
    THEN PopUntilFits(Tail(t), maxsize)
    ELSE t

\* LRUCache.__getitem__ of a present key: the key becomes most recently used
LruGetItem(t, k) == Append(Without(t, k), Entry(t, k))

\* LRUCache.__setitem__: make room for a new key, store, mark most recent
LruSetItem(t, k, v, maxsize) ==
    LET room == IF Has(t, k) THEN t ELSE PopUntilFits(t, maxsize)
    IN  Append(Without(room, k), [k |-> k, v |-> v])

(* ------------------ cachetools.TTLCache, as cache.py uses it ---------- *)
\* TTLCache.__contains__: present and timer() < link.expires
TtlContains_NoExpiry(t, k, time) == Has(t, k)

TtlContains(t, k, time) ==
    \E i \in DOMAIN t : t[i].k = k /\ time < t[i].exp

\* TTLCache.expire(time): drop every entry with not (time < expires)
TtlExpire(t, time) == SelectSeq(t, LAMBDA e : time < e.exp)

\* TTLCache.__getitem__ of a live key: the key becomes most recently used
TtlGetItem(t, k) == Append(Without(t, k), Entry(t, k))

\* TTLCache.__setitem__: expire, make room, store with expires = time + ttl.
\* d and at record the ttl argument and the time of the set that stored it.
TtlSetItem(t, k, v, ttl, maxsize, time, d) ==
    LET live == TtlExpire(t, time)
        room == IF Has(live, k) THEN live ELSE PopUntilFits(live, maxsize)
    IN  Append(Without(room, k),
               [k |-> k, v |-> v, exp |-> time + ttl, d |-> d, at |-> time])

(* ----------------------------- CacheManager --------------------------- *)
\* f'ttl_{ttl}': the attribute that holds the tier of duration ttl
AttrName_Shared(ttl) == 0

AttrName(ttl) == ttl

\* hasattr(self, f'ttl_{ttl}')
HasAttr(ttl) == AttrName(ttl) \in DOMAIN dyn

Miss == [hit |-> FALSE, v |-> NoneValue, d |-> NoTtl, at |-> 0]

\* CacheManager.get: the permanent tier, then the 24h tier, else None
GetValue_TemporaryFirst(k) ==
    IF TtlContains(temporary, k, now)
    THEN LET e == Entry(temporary, k)
         IN  [hit |-> TRUE, v |-> e.v, d |-> e.d, at |-> e.at]
    ELSE IF Has(permanent, k)
    THEN [hit |-> TRUE, v |-> Entry(permanent, k).v, d |-> NoTtl, at |-> 0]
    ELSE Miss

GetValue(k) ==
    IF Has(permanent, k)
    THEN [hit |-> TRUE, v |-> Entry(permanent, k).v, d |-> NoTtl, at |-> 0]
    ELSE IF TtlContains(temporary, k, now)
    THEN LET e == Entry(temporary, k)
         IN  [hit |-> TRUE, v |-> e.v, d |-> e.d, at |-> e.at]
    ELSE Miss

\* the permanent tier after get(k): self.permanent[key] touches the key
GetPermanent_NoTouch(k) == permanent

GetPermanent(k) ==
    IF Has(permanent, k) THEN LruGetItem(permanent, k) ELSE permanent

\* the 24h tier after get(k): read only when the permanent tier misses
GetTemporary(k) ==
    IF ~Has(permanent, k) /\ TtlContains(temporary, k, now)
    THEN TtlGetItem(temporary, k)
    ELSE temporary

\* the three branches of CacheManager.set
SetPermanent(k, v, ttl) ==
    IF ttl = NoTtl THEN LruSetItem(permanent, k, v, MaxSize) ELSE permanent

SetTemporary(k, v, ttl) ==
    IF ttl # NoTtl /\ ttl = DEFAULT_TTL
    THEN TtlSetItem(temporary, k, v, DEFAULT_TTL, MaxSize, now, ttl)
    ELSE temporary

SetDyn(k, v, ttl) ==
    IF ttl # NoTtl /\ ttl # DEFAULT_TTL
    THEN LET a     == AttrName(ttl)
             tier  == IF HasAttr(ttl) THEN dyn[a]
                      ELSE [ttl |-> ttl, items |-> <<>>]
             items == TtlSetItem(tier.items, k, v, tier.ttl, DYN_MAXSIZE,
                                 now, ttl)
         IN  [x \in DOMAIN dyn \cup {a} |->
                 IF x = a THEN [ttl |-> tier.ttl, items |-> items]
                 ELSE dyn[x]]
    ELSE dyn

\* CacheManager.clear: the dynamic tiers, every attribute named ttl_*
ClearDyn_Skipped == dyn

ClearDyn == [a \in DOMAIN dyn |-> [ttl |-> dyn[a].ttl, items |-> <<>>]]

(* ------------------- reference order of the permanent tier ------------ *)
\* a touch makes the key the most recent one
Touch(s, k, by) ==
    Append(SelectSeq(s, LAMBDA x : x.k # k), [k |-> k, by |-> by])

\* a set of a new key on a full tier drops the least recently touched key
TouchOnSet(s, k) ==
    IF Has(s, k) THEN Touch(s, k, "set")
    ELSE IF Len(s) >= MaxSize THEN Touch(Tail(s), k, "set")
    ELSE Touch(s, k, "set")

\* a get that finds the key in the permanent tier is a touch
TouchOnGet(s, k) == IF Has(s, k) THEN Touch(s, k, "get") ELSE s

(* -------------------------------- state ------------------------------- *)
NoKey == "-"

\* the record of an operation: its name and arguments; for a set on the
\* permanent tier the key it evicted and the least recently touched key
\* before it; for a get whether it immediately follows a set(k, v, ttl=None)
\* of its key; for a clear whether a dynamic tier held an entry before it
Op(op, k, d) ==
    [op |-> op, k |-> k, d |-> d, evicted |-> NoKey, lru |-> NoKey,
     afterSet |-> FALSE, heldBefore |-> FALSE, remote |-> FALSE,
     outcome |-> "-", propagated |-> FALSE]

NeverSet == [set |-> FALSE, v |-> NoneValue, d |-> NoTtl, at |-> 0]

(* --------------------------- the tool wrappers ------------------------ *)
\* exa_search_tool: the ttl depends on the words of the query
ExaTtl(query) ==
    IF query \in {"price", "cost"} THEN CACHE_TTL_SEARCH_SHORT
    ELSE CACHE_TTL_SEARCH_LONG

\* one invocation per wrapper shape: its cache key, the ttl it passes to
\* cache_manager.set, and the remote calls it makes (plain: one request;
\* job: submit, poll, fetch; synonyms: a second, optional request)
ToolCalls ==
    { [tool |-> "exa_search_tool", key |-> "exa_search:price",
       ttl |-> ExaTtl("price"), kind |-> "plain"],
      [tool |-> "exa_search_tool", key |-> "exa_search:alloy",
       ttl |-> ExaTtl("alloy"), kind |-> "plain"],
      [tool |-> "get_mp_statistics", key |-> "mp_stats:band_gap",
       ttl |-> CACHE_TTL_MP_STATS, kind |-> "plain"],
      [tool |-> "execute_pubchem_search", key |-> "pubchem:name:x:syn=True",
       ttl |-> NoTtl, kind |-> "synonyms"],
      [tool |-> "search_patents_tool", key |-> "surechembl:patents:v2:x",
       ttl |-> CACHE_TTL_PATENTS, kind |-> "job"] }

ToolKeys == {c.key : c \in ToolCalls}

\* how the remote side of an invocation can end
Outcomes(c) ==
    {"ok", "error"}
    \cup (IF c.kind = "job" THEN {"job_failed", "timeout"} ELSE {})
    \cup (IF c.kind = "synonyms" THEN {"synonyms_failed"} ELSE {})

\* what the wrapper passes to cache_manager.set: the formatted result; for
\* PubChem with a failed synonyms request the result carrying synonyms_error
Stored(outcome, payload) ==
    IF outcome = "synonyms_failed" THEN "synonyms_error" ELSE payload

\* the wrapper reaches its cache_manager.set call
Caches(outcome) == outcome \in {"ok", "synonyms_failed"}

\* the class of the exception that ends the wrapper's try block: a failed
\* request raises an httpx (or client library) error, the poller raises a
\* plain Exception for a failed job and for a timeout
Thrown(outcome) ==
    IF outcome = "error" THEN "httpx.HTTPError" ELSE "Exception"

IsInstance(kind, cls) == cls = "Exception" \/ kind = cls

\* a wrapper catching only the errors of the HTTP client
Excepts_HttpOnly(c) == {"httpx.HTTPError"}

\* the classes named by the except clauses around the wrapper's remote
\* calls: every wrapper ends with `except Exception`
Excepts(c) == {"Exception"}

\* the exception of a failed remote call is caught by the wrapper
Handles(c, outcome) ==
    \E cls \in Excepts(c) : IsInstance(Thrown(outcome), cls)

\* what the wrapper returns from its except clause: the payload with the
\* "error" field (a JSON object; a dict for PubChem; a one-element list
\* holding the object for execute_mp_search)
ErrorPayload == "error"

AllKeys == Keys \cup ToolKeys

(* ------------------------- settings (config.py) ----------------------- *)
\* the fields class Settings declares that this layer reads; Settings has
\* extra = "ignore", so no other attribute can come from the environment
settings ==
    [ SURECHEMBL_PAGE_SIZE |-> 10,
      CACHE_MAX_SIZE |-> 1000,
      CACHE_TTL_SEARCH_SHORT |-> CACHE_TTL_SEARCH_SHORT,
      CACHE_TTL_SEARCH_LONG |-> CACHE_TTL_SEARCH_LONG,
      CACHE_TTL_MP_DATA |-> CACHE_TTL_MP_DATA,
      CACHE_TTL_MP_STATS |-> CACHE_TTL_MP_STATS,
      CACHE_TTL_PATENTS |-> CACHE_TTL_PATENTS,
      CACHE_TTL_STRUCTURES |-> CACHE_TTL_STRUCTURES ]

\* reading settings.<name> succeeds; otherwise it raises AttributeError
HasSetting(name) == name \in DOMAIN settings

(* ----------------- the session registry (agents/graph.py) ------------- *)
SessionIds == {"s1", "s2"}

\* the instants datetime.now() takes, in minutes: they put sessions at
\* 1, 5, 6, 55, 60 and 61 minutes of idle time
Instants == <<0, 55, 60, 61>>

WallNow == Instants[wall]

\* _active_sessions[session_id] = datetime.now()
RecordAccess_Skipped(reg, s, t) == reg

\* record_access storing the time elapsed since the previous access
RecordAccess_Elapsed(reg, s, t) ==
    [x \in DOMAIN reg \cup {s} |->
        IF x # s THEN reg[x] ELSE IF s \in DOMAIN reg THEN t - reg[s] ELSE t]

RecordAccess(reg, s, t) ==
    [x \in DOMAIN reg \cup {s} |-> IF x = s THEN t ELSE reg[x]]

\* now - last_access, in minutes
Idle(reg, s, t) == t - reg[s]

\* first loop of cleanup_old_sessions
InactiveSet(reg, t) ==
    {s \in DOMAIN reg :
        Idle(reg, s, t) > settings.SESSION_CLEANUP_INACTIVE_MINUTES}

\* second loop of cleanup_old_sessions
OrphanSet(reg, t, is_new_session) ==
    IF is_new_session /\ settings.SESSION_CLEANUP_ON_NEW_SESSION
    THEN {s \in DOMAIN reg : Idle(reg, s, t) > ORPHAN_MINUTES}
    ELSE {}

sessions_to_remove(reg, t, is_new_session) ==
    InactiveSet(reg, t) \cup OrphanSet(reg, t, is_new_session)

\* a mapping without the given keys
Drop(f, ks) == [x \in DOMAIN f \ ks |-> f[x]]

\* the attribute through which the sweep reaches the stored threads:
\* hasattr(checkpointer, '_storage') / hasattr(checkpointer, 'storage')
StorageAttr(cp) == IF cp = "InMemorySaver" THEN "storage" ELSE NoneValue

\* the sessions whose stored state the deletion loop deletes: those of the
\* removal set that the store holds, unless the store is out of reach or
\* the deletion raises (fails: the sessions whose deletion raises)
Deleted(sto, rm, cp, fails) ==
    IF StorageAttr(cp) = NoneValue THEN {}
    ELSE {s \in rm : s \in DOMAIN sto /\ s \notin fails}

\* a sweep that takes a missing threshold for zero
cleanup_old_sessions_ZeroThreshold(reg, sto, cp, t, is_new_session, fails) ==
    LET rm == {s \in DOMAIN reg : Idle(reg, s, t) > 0}
    IN  [entered |-> cp # NoneValue, raised |-> FALSE,
         reg |-> IF cp = NoneValue THEN reg ELSE Drop(reg, rm),
         sto |-> IF cp = NoneValue THEN sto ELSE Drop(sto, rm \ fails),
         cleaned |-> 0, returned |-> NoneValue]

\* cleanup_old_sessions(cp, is_new_session) on registry reg and storage sto:
\* whether its body was entered, whether it raised, what it left, its
\* cleaned_count and what it returned
cleanup_old_sessions(reg, sto, cp, t, is_new_session, fails) ==
    LET left(entered, raised, reg2, sto2, cleaned_count) ==
            [entered |-> entered, raised |-> raised, reg |-> reg2,
             sto |-> sto2, cleaned |-> cleaned_count, returned |-> NoneValue]
    IN  IF cp = NoneValue
        THEN left(FALSE, FALSE, reg, sto, 0)
        ELSE IF ~HasSetting("SESSION_CLEANUP_INACTIVE_MINUTES")
        THEN left(TRUE, TRUE, reg, sto, 0)
        ELSE IF is_new_session /\ ~HasSetting("SESSION_CLEANUP_ON_NEW_SESSION")
        THEN left(TRUE, TRUE, reg, sto, 0)
        ELSE LET rm == sessions_to_remove(reg, t, is_new_session)
                 deleted == Deleted(sto, rm, cp, fails)
             IN  left(TRUE, FALSE, Drop(reg, rm), Drop(sto, deleted),
                      Cardinality(deleted))

\* the turns the short-term store holds for a session
TurnsOf(sto, s) == IF s \in DOMAIN sto THEN sto[s] ELSE 0

\* the record of an operation on the registry: the sessions idle for more
\* than InactiveMinutes (stale) and for more than ORPHAN_MINUTES (orphans)
\* when it ran, the sessions it removed, and the turns its own session held;
\* the sessions due for removal whose deletion raises, what it returned, the
\* last access its session had before (NoTtl: none), and whether a sweep
\* had found its session due for removal
SOp(op, s, is_new_session) ==
    [op |-> op, s |-> s, isNew |-> is_new_session, fresh |-> FALSE,
     entered |-> FALSE, raised |-> FALSE, stale |-> {}, orphans |-> {},
     removed |-> {}, held |-> 0, invoked |-> FALSE, fails |-> {},
     returned |-> NoneValue, prev |-> NoTtl, wasDue |-> FALSE]

(* ------------- the job poller (tools/surechembl.py 15-34) ------------- *)
\* what status_resp.json().get("status") can hold
StatusValues == {"PENDING", "RUNNING", "COMPLETE", "FAILED", "ERROR", NoneValue}

\* a request that raises: the transport fails, or raise_for_status() does
TransportError == "TransportError"

StatusResponses == StatusValues \cup {TransportError}

FetchResponses == {"results", TransportError}

\* neither request of the poller is wrapped in try/except
Propagates_Swallowed(resp) == FALSE

Propagates(resp) == resp = TransportError

\* if status == "COMPLETE"
IsComplete_OrRunning(status) == status \in {"COMPLETE", "RUNNING"}

IsComplete(status) == status = "COMPLETE"

\* elif status in ["FAILED", "ERROR"]
IsFailed_OnlyFailed(status) == status = "FAILED"

IsFailed(status) == status \in {"FAILED", "ERROR"}

\* for _ in range(max_retries): another iteration follows
MoreAttempts_OffByOne(p) == p.polls <= p.max_retries

MoreAttempts(p) == p.polls < p.max_retries

NoOutcome == [kind |-> "-", msg |-> "-", status |-> "-"]

\* return results_resp.json()
Returned == [kind |-> "result", msg |-> "-", status |-> "COMPLETE"]

\* raise Exception(f"Search job failed with status: {status}")
JobFailure(status) ==
    [kind |-> "Exception", msg |-> "Search job failed with status: ",
     status |-> status]

\* raise Exception("Search timed out")
TimedOut == [kind |-> "Exception", msg |-> "Search timed out", status |-> "-"]

\* the httpx exception of a failed request
HttpError == [kind |-> "httpx.HTTPError", msg |-> "-", status |-> "-"]

\* _poll_search_results(client, job_id, max_retries) is entered. Beside the
\* position and the counters of requests and sleeps, the record keeps what
\* the remote side answered: the last response, the first terminal status
\* and the poll that got it, and the counters when a request raised
PollBegin(tool, fields, job_id, max_retries) ==
    LET p == [pc |-> "status", tool |-> tool, fields |-> fields,
              job_id |-> job_id, max_retries |-> max_retries,
              polls |-> 0, fetches |-> 0, sleeps |-> 0,
              resp |-> "-", firstTerminal |-> "-", firstTerminalAt |-> 0,
              raisedAt |-> <<>>, outcome |-> NoOutcome]
    IN  IF MoreAttempts(p) THEN p
        ELSE [p EXCEPT !.pc = "done", !.outcome = TimedOut]

Terminal == {"COMPLETE", "FAILED", "ERROR"}

\* one iteration of the loop up to its sleep: the status request, then the
\* branch on the status (lines 20-30)
OnStatus(p, resp) ==
    LET q == [p EXCEPT
                !.polls = @ + 1,
                !.resp = resp,
                !.firstTerminal =
                    IF @ = "-" /\ resp \in Terminal THEN resp ELSE @,
                !.firstTerminalAt =
                    IF @ = 0 /\ resp \in Terminal THEN p.polls + 1 ELSE @,
                !.raisedAt =
                    IF resp = TransportError
                    THEN <<p.polls + 1, p.fetches, p.sleeps>> ELSE @]
    IN  IF Propagates(resp)
        THEN [q EXCEPT !.pc = "done", !.outcome = HttpError]
        ELSE IF IsComplete(resp) THEN [q EXCEPT !.pc = "fetch"]
        ELSE IF IsFailed(resp)
        THEN [q EXCEPT !.pc = "done", !.outcome = JobFailure(resp)]
        ELSE [q EXCEPT !.pc = "sleep"]

\* the results request of a complete job (lines 25-27)
OnFetch(p, resp) ==
    LET q == [p EXCEPT
                !.fetches = @ + 1,
                !.resp = resp,
                !.raisedAt =
                    IF resp = TransportError
                    THEN <<p.polls, p.fetches + 1, p.sleeps>> ELSE @]
    IN  IF Propagates(resp)
        THEN [q EXCEPT !.pc = "done", !.outcome = HttpError]
        ELSE [q EXCEPT !.pc = "done", !.outcome = Returned]

\* await asyncio.sleep(2), then the next iteration or, after the last one,
\* the raise that follows the loop (lines 32-34)
OnSleep(p) ==
    LET q == [p EXCEPT !.sleeps = @ + 1]
    IN  IF MoreAttempts(q) THEN [q EXCEPT !.pc = "status"]
        ELSE [q EXCEPT !.pc = "done", !.outcome = TimedOut]

\* the job-based tools and the fields of the submission response each reads
JobTools ==
    {"search_patents_tool", "search_similar_structures_tool",
     "get_chemical_frequency_tool"}

HandleFields == {"string", "hash", "id"}

CandidateFields(tool) ==
    IF tool = "search_patents_tool" THEN <<"string", "hash", "id">>
    ELSE <<"string">>

\* job_id = response.json().get("string") [or .get("hash") or .get("id")]:
\* the handle "J" held by the first candidate field present, else None
JobIdOf(tool, fields) ==
    IF \E i \in DOMAIN CandidateFields(tool) : CandidateFields(tool)[i] \in fields
    THEN "J" ELSE NoneValue

\* no call of the poller is running
NoPoll == [PollBegin(NoKey, {}, NoneValue, 0) EXCEPT
            !.pc = "idle", !.outcome = NoOutcome]

Init ==
    /\ permanent = <<>>
    /\ temporary = <<>>
    /\ dyn = <<>>
    /\ now = 0
    /\ ret = Miss
    /\ last = Op("init", NoKey, NoTtl)
    /\ lastSet = [k \in AllKeys |-> NeverSet]
    /\ sinceClear = FALSE
    /\ touchSeq = <<>>
    /\ inflight = {}
    /\ active_sessions = <<>>
    /\ checkpointer = NoneValue
    /\ storage = <<>>
    /\ wall = 1
    /\ turns = [s \in SessionIds |-> 0]
    /\ slast = SOp("init", NoKey, FALSE)
    /\ due = {}
    /\ poll = NoPoll
    /\ errorLog = {}

(* ------------------------ what the claims speak of -------------------- *)
\* the tier a set with ttl argument d is meant to store into
TierItems(d) ==
    IF d = NoTtl THEN permanent
    ELSE IF d = DEFAULT_TTL THEN temporary
    ELSE IF HasAttr(d) THEN dyn[AttrName(d)].items
    ELSE <<>>

\* the entry written by the most recent set on k is still in its tier
\* (not evicted, not cleared) and its duration has not elapsed
StillStored(k) ==
    LET s == lastSet[k]
    IN  /\ s.set
        /\ Has(TierItems(s.d), k)
        /\ s.d # NoTtl => now - s.at < s.d

\* the dynamic tiers that hold a live entry for k
InDyn(k) == {a \in DOMAIN dyn : TtlContains(dyn[a].items, k, now)}

\* the number of tiers that hold a live entry for k
Holders(k) ==
    Cardinality(InDyn(k))
    + (IF Has(permanent, k) THEN 1 ELSE 0)
    + (IF TtlContains(temporary, k, now) THEN 1 ELSE 0)

(* ------------------------------- actions ------------------------------ *)
\* the key a set pushed out of the permanent tier, if any
EvictedBy(before, after) ==
    IF KeySet(before) \ KeySet(after) = {} THEN NoKey
    ELSE CHOOSE x \in KeySet(before) \ KeySet(after) : TRUE

\* the effect of cache_manager.set(k, v, ttl) on the cache
CacheSet(k, v, ttl) ==
    /\ permanent' = SetPermanent(k, v, ttl)
    /\ temporary' = SetTemporary(k, v, ttl)
    /\ dyn' = SetDyn(k, v, ttl)
    /\ lastSet' = [lastSet EXCEPT
                     ![k] = [set |-> TRUE, v |-> v, d |-> ttl, at |-> now]]
    /\ sinceClear' = FALSE
    /\ touchSeq' = IF ttl = NoTtl THEN TouchOnSet(touchSeq, k) ELSE touchSeq

\* the effect of cache_manager.get(k) on the cache
CacheGet(k) ==
    /\ permanent' = GetPermanent(k)
    /\ temporary' = GetTemporary(k)
    /\ touchSeq' = TouchOnGet(touchSeq, k)
    /\ UNCHANGED <<dyn, lastSet, sinceClear>>

\* cache_manager.set(k, v, ttl)
Set(k, v, ttl) ==
    /\ CacheSet(k, v, ttl)
    /\ last' = [Op("set", k, ttl) EXCEPT
                  !.evicted = EvictedBy(permanent, permanent'),
                  !.lru = IF ttl = NoTtl /\ touchSeq # <<>>
                          THEN Head(touchSeq).k ELSE NoKey]
    /\ ret' = Miss
    /\ UNCHANGED <<now, inflight, sessionVars, pollVars>>

\* cache_manager.get(k)
Get(k) ==
    /\ ret' = GetValue(k)
    /\ CacheGet(k)
    /\ last' = [Op("get", k, NoTtl) EXCEPT
                  !.afterSet = (last.op = "set" /\ last.k = k
                                /\ last.d = NoTtl)]
    /\ UNCHANGED <<now, inflight, sessionVars, pollVars>>

\* cache_manager.clear()
Clear ==
    /\ permanent' = <<>>
    /\ temporary' = <<>>
    /\ dyn' = ClearDyn
    /\ sinceClear' = TRUE
    /\ touchSeq' = <<>>
    /\ last' = [Op("clear", NoKey, NoTtl) EXCEPT
                  !.heldBefore = \E a \in DOMAIN dyn : dyn[a].items # <<>>]
    /\ lastSet' = [k \in AllKeys |-> NeverSet]
    /\ ret' = Miss
    /\ UNCHANGED <<now, inflight, sessionVars, pollVars>>

\* the monotonic clock advances
Tick ==
    /\ now + TickUnit <= MaxTime
    /\ now' = now + TickUnit
    /\ last' = Op("tick", NoKey, NoTtl)
    /\ ret' = Miss
    /\ UNCHANGED <<permanent, temporary, dyn, lastSet, sinceClear,
                   touchSeq, inflight, sessionVars, pollVars>>

\* a tool wrapper up to its first await: cached = cache_manager.get(key);
\* `if cached: return cached` (every stored result is a non-empty string,
\* hence truthy), else the remote call is issued. One invocation per key
\* waits at a time.
Invoke(c) ==
    /\ c.key \notin inflight
    /\ Cardinality(inflight) < MaxInflight
    /\ CacheGet(c.key)
    /\ ret' = GetValue(c.key)
    /\ inflight' = IF GetValue(c.key).hit THEN inflight
                   ELSE inflight \cup {c.key}
    /\ last' = [Op("invoke", c.key, c.ttl) EXCEPT
                  !.remote = ~GetValue(c.key).hit,
                  !.heldBefore = (lastSet[c.key].set /\ StillStored(c.key))]
    /\ UNCHANGED <<now, sessionVars, pollVars>>

\* the rest of the wrapper, once its remote calls have ended: on success
\* cache_manager.set(key, result, ttl) and return the result; on an
\* exception the except clause returns the error payload; an exception no
\* except clause names leaves the wrapper
Complete(c, outcome, payload) ==
    /\ c.key \in inflight
    /\ inflight' = inflight \ {c.key}
    /\ IF Caches(outcome)
       THEN CacheSet(c.key, Stored(outcome, payload), c.ttl)
       ELSE UNCHANGED <<permanent, temporary, dyn, lastSet, sinceClear,
                        touchSeq>>
    /\ ret' = [Miss EXCEPT !.v = IF outcome = "ok" THEN payload
                                 ELSE IF Caches(outcome)
                                 THEN Stored(outcome, payload)
                                 ELSE IF Handles(c, outcome)
                                 THEN ErrorPayload
                                 ELSE NoneValue]
    /\ last' = [Op("complete", c.key, c.ttl) EXCEPT
                  !.outcome = outcome,
                  !.propagated = (~Caches(outcome) /\ ~Handles(c, outcome)),
                  !.heldBefore = (Holders(c.key) > 0)]
    /\ UNCHANGED <<now, sessionVars, pollVars>>

(* ----------------------- actions on the sessions ---------------------- *)
cacheState == <<permanent, temporary, dyn, now, ret, last, lastSet,
                sinceClear, touchSeq, inflight>>

\* the sessions of a registry idle for more than a number of minutes
IdleOver(reg, minutes) ==
    {x \in DOMAIN reg : Idle(reg, x, WallNow) > minutes}

\* the sessions a sweep is to remove: those idle for more than the
\* inactivity threshold and, with the new-session flag, for more than the
\* orphan threshold
Expected(reg, is_new_session) ==
    IdleOver(reg, InactiveMinutes)
        \cup (IF is_new_session THEN IdleOver(reg, ORPHAN_MINUTES) ELSE {})

\* run_agent(user_query, s, is_new_session) up to its first suspension:
\* the access is recorded; with the flag and a checkpointer the sweep runs;
\* get_agent creates the checkpointer if there is none; an exception of the
\* sweep leaves run_agent before the agent is invoked
RunAgentStep(s, is_new_session, op, fresh) ==
    /\ turns[s] < MaxOverlap
    /\ \E fails \in SUBSET (SessionIds \ {s}) :
       LET reg1 == RecordAccess(active_sessions, s, WallNow)
           c == IF is_new_session /\ checkpointer # NoneValue
                THEN cleanup_old_sessions(reg1, storage, checkpointer,
                                          WallNow, TRUE, fails)
                ELSE [entered |-> FALSE, raised |-> FALSE,
                      reg |-> reg1, sto |-> storage]
       IN  /\ (c.entered \/ fails = {})
           /\ active_sessions' = c.reg
           /\ storage' = c.sto
           /\ checkpointer' = IF c.raised THEN checkpointer
                              ELSE "InMemorySaver"
           /\ turns' = IF c.raised THEN turns
                        ELSE [turns EXCEPT ![s] = @ + 1]
           /\ slast' = [SOp(op, s, is_new_session) EXCEPT
                          !.fresh = fresh,
                          !.entered = c.entered,
                          !.raised = c.raised,
                          !.stale = IdleOver(reg1, InactiveMinutes),
                          !.orphans = IdleOver(reg1, ORPHAN_MINUTES),
                          !.removed = DOMAIN reg1 \ DOMAIN c.reg,
                          !.held = TurnsOf(storage, s),
                          !.invoked = ~c.raised,
                          !.prev = IF s \in DOMAIN active_sessions
                                   THEN active_sessions[s] ELSE NoTtl,
                          !.wasDue = s \in due]
           /\ due' = (due \ {s})
                        \cup (IF c.entered THEN Expected(reg1, TRUE) ELSE {})
    /\ UNCHANGED <<wall, cacheState, pollVars>>

\* a direct call of run_agent
RunAgent(s, is_new_session) ==
    RunAgentStep(s, is_new_session, "run_agent", FALSE)

\* session ids uuid.uuid4() can produce: ids nothing refers to yet
FreshIds ==
    {s \in SessionIds :
        s \notin DOMAIN active_sessions \cup DOMAIN storage /\ turns[s] = 0}

\* POST /api/chat: session_id = request.session_id or str(uuid.uuid4());
\* run_agent(user_query=..., session_id=session_id)
Chat(session_id) ==
    IF session_id = NoneValue
    THEN \E s \in FreshIds : RunAgentStep(s, FALSE, "chat", TRUE)
    ELSE RunAgentStep(session_id, FALSE, "chat", FALSE)

\* agent.ainvoke ends: with a result, the checkpointer holding one more
\* turn of the thread, or with an exception
AgentDone(s, ok) ==
    /\ turns[s] > 0
    /\ turns' = [turns EXCEPT ![s] = @ - 1]
    /\ storage' =
         IF ok
         THEN [x \in DOMAIN storage \cup {s} |->
                 IF x # s THEN storage[x]
                 ELSE IF TurnsOf(storage, s) < MaxTurns
                      THEN TurnsOf(storage, s) + 1 ELSE MaxTurns]
         ELSE storage
    /\ slast' = SOp("done", s, FALSE)
    /\ UNCHANGED <<active_sessions, checkpointer, wall, due, cacheState,
                   pollVars>>

\* GET /api/history/{session_id}: get_agent() creates the checkpointer if
\* there is none; agent.aget_state reads the thread, and reading a thread
\* the store does not hold leaves an empty entry for it in storage
GetHistory(session_id) ==
    /\ checkpointer' = "InMemorySaver"
    /\ storage' = [x \in DOMAIN storage \cup {session_id} |->
                     TurnsOf(storage, x)]
    /\ slast' = SOp("history", session_id, FALSE)
    /\ UNCHANGED <<active_sessions, wall, turns, due, cacheState, pollVars>>

\* a direct call cleanup_old_sessions(get_checkpointer(), is_new_session)
Sweep(is_new_session, fails) ==
    LET c == cleanup_old_sessions(active_sessions, storage, checkpointer,
                                  WallNow, is_new_session, fails)
    IN  /\ (c.entered \/ fails = {})
        /\ active_sessions' = c.reg
        /\ storage' = c.sto
        /\ slast' = [SOp("sweep", NoKey, is_new_session) EXCEPT
                       !.entered = c.entered,
                       !.raised = c.raised,
                       !.stale = IdleOver(active_sessions, InactiveMinutes),
                       !.orphans = IdleOver(active_sessions, ORPHAN_MINUTES),
                       !.removed = DOMAIN active_sessions \ DOMAIN c.reg,
                       !.fails = fails \cap Expected(active_sessions,
                                                     is_new_session),
                       !.returned = c.returned]
        /\ due' = due \cup (IF c.entered
                             THEN Expected(active_sessions, is_new_session)
                             ELSE {})
        /\ UNCHANGED <<checkpointer, wall, turns, cacheState, pollVars>>

\* datetime.now() moves to the next instant
WallTick ==
    /\ wall < Len(Instants)
    /\ wall' = wall + 1
    /\ slast' = SOp("tick", NoKey, FALSE)
    /\ UNCHANGED <<active_sessions, checkpointer, storage, turns, due,
                   cacheState, pollVars>>

(* ------------------------ actions of the job poller ------------------- *)
\* why a call of the poller failed, told from what the remote side answered
Cause(p) ==
    IF p.raisedAt # <<>> THEN "transport"
    ELSE IF p.firstTerminal \in {"FAILED", "ERROR"} THEN "job_failure"
    ELSE "timeout"

\* the exception a caller of the poller receives, if the call ended by one
Raised(p) ==
    IF p.pc = "done" /\ p.outcome # NoOutcome /\ p.outcome # Returned
    THEN {[cause |-> Cause(p), kind |-> p.outcome.kind]}
    ELSE {}

PollIdle == poll.pc \in {"idle", "done"}

\* a job-based tool after its submission request: the handle is read from
\* the response and passed to the poller with the default max_retries
Submit(tool, fields) ==
    /\ PollIdle
    /\ poll' = PollBegin(tool, fields, JobIdOf(tool, fields),
                         DEFAULT_MAX_RETRIES)
    /\ errorLog' = errorLog \cup Raised(poll')
    /\ UNCHANGED <<cacheState, sessionVars>>

\* a direct call _poll_search_results(client, "J", max_retries)
PollCall(max_retries) ==
    /\ PollIdle
    /\ poll' = PollBegin(NoKey, {}, "J", max_retries)
    /\ errorLog' = errorLog \cup Raised(poll')
    /\ UNCHANGED <<cacheState, sessionVars>>

StatusPoll(resp) ==
    /\ poll.pc = "status"
    /\ poll' = OnStatus(poll, resp)
    /\ errorLog' = errorLog \cup Raised(poll')
    /\ UNCHANGED <<cacheState, sessionVars>>

Fetch(resp) ==
    /\ poll.pc = "fetch"
    /\ poll' = OnFetch(poll, resp)
    /\ errorLog' = errorLog \cup Raised(poll')
    /\ UNCHANGED <<cacheState, sessionVars>>

Sleep ==
    /\ poll.pc = "sleep"
    /\ poll' = OnSleep(poll)
    /\ errorLog' = errorLog \cup Raised(poll')
    /\ UNCHANGED <<cacheState, sessionVars>>

(* ---------------------------- specifications -------------------------- *)
\* every operation of the cache over time: key A is written with both
\* values and every ttl, key B with one value into the two fixed tiers
KeysAB == {"A", "B"}

ValuesOf(k) == IF k = "A" THEN Values ELSE {"v1"}

TtlArgsOf(k) == IF k = "A" THEN TtlArgs ELSE {NoTtl, DEFAULT_TTL}

NextCache ==
    \/ \E k \in KeysAB : \E v \in ValuesOf(k), ttl \in TtlArgsOf(k) :
          Set(k, v, ttl)
    \/ \E k \in KeysAB : Get(k)
    \/ Clear
    \/ Tick

SpecCache == Init /\ [][NextCache]_vars

\* the bounded-duration tiers: three durations, two of them dynamic
TimedTtls == {DEFAULT_TTL, OtherTtl, CACHE_TTL_SEARCH_LONG}

NextTiers ==
    \/ \E k \in KeysAB, ttl \in TimedTtls : Set(k, "v1", ttl)
    \/ \E k \in KeysAB : Get(k)
    \/ Clear
    \/ Tick

SpecTiers == Init /\ [][NextTiers]_vars

\* the permanent tier under capacity pressure: one key more than it holds
KeysLRU == {KeyPool[i] : i \in 1..(MaxSize + 1)}

NextLRU ==
    \/ \E k \in KeysLRU : Set(k, "v1", NoTtl)
    \/ Set("A", "v2", DEFAULT_TTL)
    \/ \E k \in KeysLRU : Get(k)
    \/ Clear

SpecLRU == Init /\ [][NextLRU]_vars

\* the tool wrappers, interleaved at their awaits, over time; the remote
\* result varies for the wrappers whose tier get can serve
PayloadsOf(c) == IF c.ttl \in {NoTtl, DEFAULT_TTL} THEN Values ELSE {"v1"}

NextTools ==
    \/ \E c \in ToolCalls : Invoke(c)
    \/ \E c \in ToolCalls : \E o \in Outcomes(c), p \in PayloadsOf(c) :
          Complete(c, o, p)
    \/ Tick

SpecTools == Init /\ [][NextTools]_vars

\* the registry under chat requests, direct calls of run_agent and of the
\* sweep, and time
SessionArgs == SessionIds \cup {NoneValue}

NextSessions ==
    \/ \E sid \in SessionArgs : Chat(sid)
    \/ \E s \in SessionIds, f \in BOOLEAN : RunAgent(s, f)
    \/ \E s \in SessionIds, ok \in BOOLEAN : AgentDone(s, ok)
    \/ \E f \in BOOLEAN, fails \in SUBSET SessionIds : Sweep(f, fails)
    \/ \E s \in SessionIds : GetHistory(s)
    \/ WallTick

SpecSessions == Init /\ [][NextSessions]_vars

\* the poller, called by the three job-based tools and directly; every
\* request is answered or raises (the client has a timeout) and every sleep
\* ends, so a step of a running call is eventually taken
RetryArgs == 0..MaxRetries

PollStep ==
    \/ \E resp \in StatusResponses : StatusPoll(resp)
    \/ \E resp \in FetchResponses : Fetch(resp)
    \/ Sleep

NextPoller ==
    \/ \E tool \in JobTools, fields \in SUBSET HandleFields :
          Submit(tool, fields)
    \/ \E n \in RetryArgs : PollCall(n)
    \/ PollStep

SpecPoller == Init /\ [][NextPoller]_vars /\ WF_vars(PollStep)

(* ---------------------------------------------------------------------- *)
\* C1: for every expiry duration d, a get(k) issued after set(k, v, ttl=d),
\* before d has elapsed and with the entry neither evicted nor cleared,
\* returns v: get consults the permanent tier (which does not hold k here)
\* and then every bounded-duration tier that has been created.
C1_GetReturnsEntryOfEveryDuration ==
    last.op = "get" =>
        LET s == lastSet[last.k]
        IN  (s.d # NoTtl /\ StillStored(last.k) /\ ~Has(permanent, last.k))
                => (ret.hit /\ ret.v = s.v)

\* C4: last write wins. The claim for the ttl arguments none and 86400, the
\* two tiers get consults: a get(k) returns the value of the most recent
\* set on k while that value is neither expired nor evicted.
C4_LastWriteWins ==
    \A k \in AllKeys :
        (lastSet[k].d \in {NoTtl, DEFAULT_TTL} /\ StillStored(k)) =>
            (GetValue(k).hit /\ GetValue(k).v = lastSet[k].v)

\* C5: in every reachable state each key is held by at most one tier.
C5_AtMostOneTierPerKey == \A k \in AllKeys : Holders(k) <= 1

\* C7: round trip on the permanent tier: a get(k) that immediately follows
\* set(k, v, ttl=None) returns v, whatever was set before.
C7_PermanentRoundTrip ==
    (last.op = "get" /\ last.afterSet) =>
        (ret.hit /\ ret.v = lastSet[last.k].v /\ ret.d = NoTtl)

\* the get follows a permanent set of a key whose 24h entry, written
\* earlier with the other value, is still live
C7_Witness ==
    /\ last.op = "get" /\ last.afterSet /\ ret.hit
    /\ TtlContains(temporary, last.k, now)
    /\ Entry(temporary, last.k).v # ret.v

\* C8: TTL expiry: get never returns an entry stored with ttl = d once more
\* than d has passed since the set that stored it.
C8_NoEntryReturnedAfterItsTtl ==
    (last.op = "get" /\ ret.hit /\ ret.d # NoTtl) => ~(now - ret.at > ret.d)

\* a get found the 24h tier still storing its key, set more than 24h
\* before, and returned absent
C8_Witness ==
    /\ last.op = "get" /\ ~ret.hit
    /\ Has(temporary, last.k)
    /\ now - Entry(temporary, last.k).at > DEFAULT_TTL

\* C10: from a clear() until the next set every tier is empty, the dynamic
\* tiers included, and get returns absent for every key.
C10_ClearEmptiesEveryTier ==
    sinceClear =>
        /\ permanent = <<>>
        /\ temporary = <<>>
        /\ \A a \in DOMAIN dyn : dyn[a].items = <<>>
        /\ \A k \in AllKeys : ~GetValue(k).hit
        /\ last.op = "get" => ~ret.hit

\* a clear() that found an entry in a dynamic tier
C10_Witness == sinceClear /\ last.op = "clear" /\ last.heldBefore

\* C9: tier isolation. Every bounded-duration tier holds only entries set
\* with its own duration, which expire by that duration's clock alone; no
\* two tiers serve the same duration; and an entry whose duration has not
\* elapsed is still in the tier of its duration, whatever was stored into,
\* or expired from, the other tiers and whichever sets reused its tier.
C9_TierIsolation ==
    /\ \A i \in DOMAIN temporary :
          /\ temporary[i].d = DEFAULT_TTL
          /\ temporary[i].exp = temporary[i].at + DEFAULT_TTL
    /\ \A a \in DOMAIN dyn : \A i \in DOMAIN dyn[a].items :
          /\ dyn[a].items[i].d = dyn[a].ttl
          /\ dyn[a].items[i].exp = dyn[a].items[i].at + dyn[a].ttl
    /\ \A a \in DOMAIN dyn :
          /\ dyn[a].ttl # DEFAULT_TTL
          /\ \A b \in DOMAIN dyn : dyn[a].ttl = dyn[b].ttl => a = b
    /\ \A k \in AllKeys :
          LET s == lastSet[k]
          IN  (s.set /\ s.d # NoTtl /\ now - s.at < s.d) =>
                  /\ TtlContains(TierItems(s.d), k, now)
                  /\ Entry(TierItems(s.d), k).v = s.v
                  /\ Entry(TierItems(s.d), k).at = s.at

\* two dynamic tiers: the shorter one still stores an expired entry of A
\* while the longer one, used by two sets, holds live entries of A and B
C9_Witness ==
    /\ HasAttr(OtherTtl) /\ HasAttr(CACHE_TTL_SEARCH_LONG)
    /\ Has(TierItems(OtherTtl), "A")
    /\ ~TtlContains(TierItems(OtherTtl), "A", now)
    /\ TtlContains(TierItems(CACHE_TTL_SEARCH_LONG), "A", now)
    /\ TtlContains(TierItems(CACHE_TTL_SEARCH_LONG), "B", now)

\* C6: the permanent tier never holds more than its maximum, it holds
\* exactly the keys that least-recently-touched eviction keeps (a get hit
\* and a set both being touches), and the key a set pushes out is the one
\* least recently touched.
C6_PermanentTierIsLRU ==
    /\ Len(permanent) <= MaxSize
    /\ KeySet(permanent) = KeySet(touchSeq)
    /\ (last.op = "set" /\ last.evicted # NoKey) => last.evicted = last.lru

\* set C pushed B out of a full tier that keeps A, last touched by a get
C6_Witness ==
    /\ last.op = "set" /\ last.k = "C" /\ last.evicted = "B"
    /\ KeySet(permanent) = {"A", "C"}
    /\ touchSeq[1] = [k |-> "A", by |-> "get"]

\* C2: once an invocation has populated the cache for a fingerprint key,
\* a later invocation with the same key, made while that entry is in its
\* tier and unexpired, returns the cached payload and issues no remote call.
C2_CachedResultServedWithoutRemoteCall ==
    (last.op = "invoke" /\ last.heldBefore) =>
        (~last.remote /\ ret.hit /\ ret.v = lastSet[last.k].v)

\* C3: no negative caching: when a remote call of an invocation has failed,
\* no tier holds an entry for its key afterwards unless one was there before.
C3_NoNegativeCaching ==
    (last.op = "complete" /\ last.outcome # "ok") =>
        (Holders(last.k) > 0 => last.heldBefore)

\* the chat endpoint alone, as main.py drives the registry, under a
\* continuing stream of requests: every request that can be made is
\* eventually made, every agent run ends, and time passes
NextChat ==
    \/ \E sid \in SessionArgs : Chat(sid)
    \/ \E s \in SessionIds, ok \in BOOLEAN : AgentDone(s, ok)
    \/ WallTick

SpecChat ==
    /\ Init
    /\ [][NextChat]_vars
    /\ WF_vars(\E sid \in SessionArgs : Chat(sid))
    /\ WF_vars(\E s \in SessionIds, ok \in BOOLEAN : AgentDone(s, ok))
    /\ WF_vars(WallTick)

\* C11: a sweep run without the new-session flag removes from the registry
\* exactly the sessions idle for strictly more than the inactivity
\* threshold, and no other session.
C11_InactivitySweepRemovesExactlyStale ==
    (slast.op = "sweep" /\ ~slast.isNew /\ checkpointer # NoneValue)
        => slast.removed = slast.stale

\* C12: a sweep with is_new_session = true removes, besides the sessions
\* idle for more than the inactivity threshold, every session idle for
\* strictly more than the orphan threshold of 5 minutes.
C12_OrphanSweepRemovesOrphans ==
    (slast.op \in {"sweep", "run_agent"} /\ slast.isNew /\ slast.entered)
        => slast.removed = slast.stale \cup slast.orphans

\* C13: run_agent(s, is_new_session = true) records the access of s and
\* runs the sweep; afterwards s is still in the registry, was not removed,
\* and the turns stored for s are the ones stored before.
C13_SweepKeepsTriggeringSession ==
    (slast.op = "run_agent" /\ slast.isNew) =>
        /\ slast.s \in DOMAIN active_sessions
        /\ active_sessions[slast.s] = WallNow
        /\ slast.s \notin slast.removed
        /\ TurnsOf(storage, slast.s) = slast.held

\* the sweep was entered for a session holding turns while another session
\* had been idle for more than the orphan threshold
C13_Witness ==
    /\ slast.op = "run_agent" /\ slast.isNew /\ slast.entered
    /\ slast.held > 0
    /\ slast.orphans # {}

\* C14: every chat turn records the access of its session, and a turn that
\* starts a brand-new session (no session_id in the request) runs the sweep
\* before the agent is invoked.
C14_NewSessionChatSweepsFirst ==
    slast.op = "chat" =>
        /\ slast.s \in DOMAIN active_sessions
        /\ active_sessions[slast.s] = WallNow
        /\ (slast.fresh /\ DOMAIN active_sessions # {slast.s})
               => slast.entered

\* C15: under a continuing stream of chat requests, a session idle for
\* longer than the inactivity threshold is eventually removed from the
\* registry and from the short-term store (or is used again).
C15_IdleSessionsEventuallyRemoved ==
    \A s \in SessionIds :
        (s \in DOMAIN active_sessions
            /\ Idle(active_sessions, s, WallNow) > InactiveMinutes)
        ~> (\/ (s \notin DOMAIN active_sessions /\ s \notin DOMAIN storage)
            \/ (s \in DOMAIN active_sessions
                  /\ Idle(active_sessions, s, WallNow) <= InactiveMinutes))

\* a call of the poller has been made and no request of it has raised
Clean == poll.pc # "idle" /\ poll.raisedAt = <<>>

\* C16: when the first terminal status is COMPLETE, at poll n <= max_retries,
\* the poller returns the fetched result after exactly n status polls and
\* one fetch, and it never fetches before a COMPLETE status was observed.
C16_PollerSuccess ==
    /\ poll.fetches <= 1
    /\ poll.fetches > 0 =>
          (poll.firstTerminal = "COMPLETE" /\ poll.polls = poll.firstTerminalAt)
    /\ (poll.pc = "done" /\ poll.outcome = Returned) =>
          /\ poll.firstTerminal = "COMPLETE"
          /\ poll.polls = poll.firstTerminalAt
          /\ poll.polls <= poll.max_retries
          /\ poll.fetches = 1
    /\ (poll.pc = "done" /\ Clean /\ poll.firstTerminal = "COMPLETE") =>
          poll.outcome = Returned

\* the statuses PENDING, RUNNING, COMPLETE resolved at the 3rd poll
C16_Witness ==
    /\ poll.pc = "done" /\ poll.outcome = Returned /\ poll.job_id = "J"
    /\ poll.polls = 3 /\ poll.sleeps = 2 /\ poll.fetches = 1

\* C17: once a status poll has returned FAILED or ERROR the poller has
\* failed with the job-failure error carrying that status, and that poll is
\* its last request: no further poll, no fetch, no sleep.
C17_PollerFailure ==
    poll.firstTerminal \in {"FAILED", "ERROR"} =>
        /\ poll.pc = "done"
        /\ poll.outcome = JobFailure(poll.firstTerminal)
        /\ poll.polls = poll.firstTerminalAt
        /\ poll.fetches = 0
        /\ poll.sleeps = poll.firstTerminalAt - 1

\* ERROR on the second poll, FAILED on the first
C17_Witness ==
    /\ poll.pc = "done" /\ poll.job_id = "J"
    /\ \/ (poll.firstTerminal = "ERROR" /\ poll.polls = 2)
       \/ (poll.firstTerminal = "FAILED" /\ poll.polls = 1)

\* C18: the poller issues at most max_retries status polls and every call
\* terminates; it fails with the timeout error exactly when max_retries
\* polls got no terminal status, after exactly max_retries polls.
C18_PollerTimeout ==
    /\ [](poll.pc # "idle" =>
            /\ poll.polls <= poll.max_retries
            /\ (poll.pc = "done" /\ poll.outcome = TimedOut) =>
                  (poll.polls = poll.max_retries /\ poll.firstTerminal = "-"
                     /\ poll.fetches = 0)
            /\ (poll.pc = "done" /\ Clean /\ poll.firstTerminal = "-") =>
                  (poll.outcome = TimedOut /\ poll.polls = poll.max_retries))
    /\ (poll.pc \in {"status", "fetch", "sleep"}) ~> (poll.pc = "done")

\* three polls, none terminal, with max_retries = 3
C18_Witness ==
    /\ poll.pc = "done" /\ poll.outcome = TimedOut
    /\ poll.max_retries = 3 /\ poll.polls = 3

\* C19: once a status check or the result fetch has raised a transport
\* error the poller has ended with that error, and no poll, fetch or sleep
\* followed the failed request.
C19_TransportErrorPropagates ==
    (poll.pc # "idle" /\ poll.raisedAt # <<>>) =>
        /\ poll.pc = "done"
        /\ poll.outcome = HttpError
        /\ <<poll.polls, poll.fetches, poll.sleeps>> = poll.raisedAt

\* the second status check raised, or the fetch did
C19_Witness ==
    /\ poll.pc = "done" /\ poll.outcome = HttpError /\ poll.job_id = "J"
    /\ \/ (poll.polls = 2 /\ poll.fetches = 0)
       \/ poll.fetches = 1

\* C20: a job-based tool whose submission response holds none of the
\* candidate handle fields fails with a submission error, and no status
\* poll is issued for the missing handle.
C20_NoPollWithoutHandle ==
    (poll.tool \in JobTools /\ poll.fields = {}) =>
        /\ poll.polls = 0
        /\ poll.pc = "done" => poll.outcome.kind = "SubmissionError"

\* C21: the poller's three failure outcomes (a terminal failure status,
\* exhausted attempts, a transport error) reach the caller as exceptions of
\* three different kinds.
C21_FailureKindsAreDistinct ==
    \A a, b \in errorLog : a.cause # b.cause => a.kind # b.kind

ExpectedOf(o) == o.stale \cup (IF o.isNew THEN o.orphans ELSE {})

\* the recorded operation is a sweep whose body was entered, called
\* directly or by run_agent
SweepRan == slast.op \in {"sweep", "run_agent"} /\ slast.entered

\* C23: a sweep gives its caller a cleaned_count equal to the number of
\* sessions it removed from the registry.
C23_SweepReportsCleanedCount ==
    (slast.op = "sweep" /\ slast.entered) =>
        /\ slast.returned # NoneValue
        /\ slast.returned.cleaned_count = Cardinality(slast.removed)

C28_SweepFailureNotRaisedIntoTurn ==
    (slast.op = "run_agent" /\ slast.isNew /\ slast.entered) => slast.invoked

C30_SweepIsAtomic ==
    [][(slast'.op = "sweep" \/ (slast'.op = "run_agent" /\ slast'.isNew)) =>
          /\ slast'.removed \subseteq ExpectedOf(slast')
          /\ \A s \in DOMAIN active_sessions' \ {slast'.s} :
                /\ s \in DOMAIN active_sessions
                /\ active_sessions'[s] = active_sessions[s]
          /\ \A s \in SessionIds \ {slast'.s} : turns'[s] = turns[s]]_vars

\* a sweep ran while a turn of a session was waiting for its agent and a
\* session was idle beyond the threshold
C30_Witness ==
    /\ slast.op = "sweep" /\ slast.entered
    /\ \E s \in SessionIds : turns[s] > 0
    /\ ExpectedOf(slast) # {}

====
